---- MODULE Spec2Model ----
(***************************************************************************)
(* Model of the subscription state machine of the webSocket transport     *)
(* (src/src/clients/transports/webSocket.ts).  One Subscription Record is *)
(* the closure of one subscribe() call: active, subscriptionSocket,       *)
(* subscriptionId, unsubscribeSocket.  The socket registry                *)
(* (subscribeSocket) and the dispatcher (rpc.webSocket) live in           *)
(* utils/rpc.js; they are modelled from sections 4.1, 4.2 and 6 of the    *)
(* specification.                                                         *)
(***************************************************************************)
EXTENDS Integers, Sequences, FiniteSets, TLC

\* Bounds of the model.
MaxSockets == 2        \* socket generations the registry may create
MaxUnsubscribe == 2    \* unsubscribe() calls per handle
MaxPush == 1           \* push frames the dispatcher handles
MaxRequests == 1       \* request() calls on one transport

Subs == {1, 2}         \* subscribe() calls on the one endpoint
Primary == {1}         \* the subscription followed through every interleaving
Sockets == 1..MaxSockets
Ids == 1..(MaxSockets * Cardinality(Subs))  \* one identifier per open-call
Undefined == 0         \* the value `undefined` of a nullable field
PushMethods == {"eth_subscription", "other"}

DefaultTimeout == 10000                 \* line 81
NotGiven == 0 - 1                       \* an option that is undefined
Absent == "undefined"                   \* a URL that is undefined
Timeouts == {NotGiven, 0, 5000}         \* timeout options, client and config
RetryCounts == {NotGiven, 0, 3}         \* retryCount options, client and config
UrlArguments == {Absent, "", "wss://url"}
ChainUrls == {Absent, "wss://chain"}
RequestMethods == {"eth_blockNumber", "eth_call"}
RequestParams == {"[]", "[tx]"}
NoError == "undefined"                  \* a response without error member
Responses == [error : {NoError, "reverted"}, result : {"undefined", "0x10"}]

VARIABLES
  handle,              \* per subscription: state of the promise subscribe() returns
  active,              \* let active                       (line 113)
  subscriptionSocket,  \* let subscriptionSocket           (line 115)
  subscriptionId,      \* let subscriptionId               (line 116)
  unsubscribeSocket,   \* let unsubscribeSocket, defined?  (line 118)
  listeners,           \* registry: subscriptions whose onSocketCreated is registered
  readyState,          \* per socket generation: none / open / closing / closed
  closeCallbacks,      \* per socket: subscriptions whose close callback is registered
  requests,            \* dispatcher: pending requests, with the callback's owner
  subscriptions,       \* dispatcher: per socket, identifier -> owner of the push handler
  sent,                \* per subscription: the messages it has sent, in order
  promises,            \* per subscription: the promises cleanup() has returned, in order
  assigned,            \* server: number of identifiers assigned so far
  pushed,              \* number of push frames the dispatcher has handled
  openResponses,       \* successful open-call responses handled by onResponse
  onDataCalls,         \* invocations of onData
  onErrorCalls,        \* invocations of onError
  transport,           \* the transport factory's arguments and what it resolved
  calls                \* the request() calls made on the transport, in order

subscriptionVars ==
  <<handle, active, subscriptionSocket, subscriptionId, unsubscribeSocket,
    listeners, readyState, closeCallbacks, requests, subscriptions,
    sent, promises, assigned, pushed, openResponses, onDataCalls,
    onErrorCalls>>

requestVars == <<transport, calls>>

vars == <<subscriptionVars, requestVars>>

----------------------------------------------------------------------------
\* Helpers over the state.

NumSockets == Cardinality({k \in Sockets : readyState[k] # "none"})

Live(k) == readyState[k] \in {"open", "closing"}

OpenSockets == {k \in Sockets : readyState[k] = "open"}

\* the dispatcher routes a frame without id by the identifier it carries
PushHandler(k, x) == subscriptions[k][x]

SubscribeMessage(k) == [sock |-> k, method |-> "eth_subscribe", param |-> Undefined]

\* (variant: the error reaches the callbacks of every subscription)
ErrorCallbacksOfAll(s) == Subs

\* lines 133-137: reject and onError are those of the subscribe() call whose
\* open-call was answered
ErrorCallbacks(s) == {s}

\* lines 126-154: rpc.webSocket(socket, {body, onResponse}) is given no timeout
OpenCallTimeout == NotGiven

SubscribeRequest(s, k) ==
  [sock |-> k, sub |-> s, method |-> "eth_subscribe", param |-> Undefined, promise |-> 0,
   timeout |-> OpenCallTimeout]

UnsubscribeCalls(s) == {i \in 1..Len(promises[s]) : promises[s][i].kind = "unsubscribe"}

\* unsubscribe() was invoked while no identifier was recorded
EarlyUnsubscribed(s) == \E i \in UnsubscribeCalls(s) : promises[s][i].id = Undefined

\* unsubscribe() was invoked while no identifier was recorded and socket k was bound
EarlyUnsubscribedOn(s, k) ==
  \E i \in UnsubscribeCalls(s) : promises[s][i].id = Undefined /\ promises[s][i].sock = k

\* unsubscribe() was invoked with an identifier recorded and the bound socket open
TornDown(s) == \E i \in UnsubscribeCalls(s) : promises[s][i].msg # 0

\* an open-call response carrying an error was delivered to the subscription
Errored(s) == \E e \in onErrorCalls : e.sub = s /\ e.sock # Undefined

Teardowns(s) == {i \in 1..Len(sent[s]) : sent[s][i].method = "eth_unsubscribe"}

OpenCalls(s) == {i \in 1..Len(sent[s]) : sent[s][i].method = "eth_subscribe"}

----------------------------------------------------------------------------
\* The pieces of the source the actions are built from.

\* (variant: subscribe() hands out the handle without awaiting the response)
SubscribeHandleImmediate == "returned"

\* subscribe, lines 120-121: the handle is withheld until the promise settles
SubscribeHandle == "pending"

\* (variant: the old identifier survives the rebinding)
OnSocketCreatedIdKept(oldId) == oldId

\* onSocketCreated, line 124: subscriptionId = undefined
OnSocketCreatedId(oldId) == Undefined

\* (variant: the close callback clears whatever socket is bound)
OnCloseClearsAlways(bound, socket) == TRUE

\* the close callback's guard, line 158: subscriptionSocket === socket
OnCloseClears(bound, socket) == bound = socket

\* (variant: the response handler never cleans up)
DeferredCleanupNever(act) == FALSE

\* onResponse, line 144: if (!active) cleanup()
DeferredCleanup(act) == ~act

\* onResponse, line 151: if (response.method !== 'eth_subscription') return
OnResponseForwards(method) == method = "eth_subscription"

\* (variant: the socket-creation listener stays registered)
CleanupListenersKept(L, s) == L

\* cleanup, line 178: unsubscribeSocket?.()
CleanupListeners(L, s) == IF unsubscribeSocket[s] THEN L \ {s} ELSE L

\* (variant: the readyState test of lines 182-183 is missing)
CleanupSendsAnyReadyState(id, socket) ==
  /\ id # Undefined
  /\ socket # Undefined

\* cleanup, lines 180-183: the three early returns
CleanupSends(id, socket) ==
  /\ id # Undefined
  /\ socket # Undefined
  /\ readyState[socket] = "open"

\* cleanup, lines 184-188: the teardown message and the socket it goes to
TeardownMessage(id, socket) == [sock |-> socket, method |-> "eth_unsubscribe", param |-> id]

\* cleanup as a whole, called with the identifier recorded at the call
CleanupSent(s, id) ==
  IF CleanupSends(id, subscriptionSocket[s])
  THEN Append(sent[s], TeardownMessage(id, subscriptionSocket[s]))
  ELSE sent[s]

CleanupRequests(s, id) ==
  IF CleanupSends(id, subscriptionSocket[s])
  THEN {[sock |-> subscriptionSocket[s], sub |-> s, method |-> "eth_unsubscribe",
         param |-> TeardownMessage(id, subscriptionSocket[s]).param,
         promise |-> Len(promises[s]) + 1, timeout |-> NotGiven]}
  ELSE {}

\* the promise cleanup returns, line 179, with the state it was called in
CleanupPromise(s, id, kind) ==
  [kind |-> kind, id |-> id, sock |-> subscriptionSocket[s],
   open |-> (subscriptionSocket[s] # Undefined /\ readyState[subscriptionSocket[s]] = "open"),
   msg |-> IF CleanupSends(id, subscriptionSocket[s]) THEN Len(sent[s]) + 1 ELSE 0,
   state |-> "pending"]

----------------------------------------------------------------------------
Init ==
  /\ handle = [s \in Subs |-> "none"]
  /\ active = [s \in Subs |-> TRUE]
  /\ subscriptionSocket = [s \in Subs |-> Undefined]
  /\ subscriptionId = [s \in Subs |-> Undefined]
  /\ unsubscribeSocket = [s \in Subs |-> FALSE]
  /\ listeners = {}
  /\ readyState = [k \in Sockets |-> "none"]
  /\ closeCallbacks = [k \in Sockets |-> {}]
  /\ requests = {}
  /\ subscriptions = [k \in Sockets |-> [x \in Ids |-> 0]]
  /\ sent = [s \in Subs |-> <<>>]
  /\ promises = [s \in Subs |-> <<>>]
  /\ assigned = 0
  /\ pushed = 0
  /\ openResponses = {}
  /\ onDataCalls = {}
  /\ onErrorCalls = {}
  /\ transport = [state |-> "none", url |-> Absent, chainUrl |-> Absent,
                  timeout |-> NotGiven, clientTimeout |-> NotGiven,
                  retryCount |-> NotGiven, clientRetryCount |-> NotGiven,
                  url_ |-> Absent, timeout_ |-> NotGiven, retryCount_ |-> NotGiven,
                  sockets |-> 0]
  /\ calls = <<>>

\* subscribe(), lines 112-174: the record is created and onSocketCreated is
\* registered; the registry invokes it at once when a socket is already open.
Subscribe(s) ==
  /\ handle[s] = "none"
  /\ handle' = [handle EXCEPT ![s] = SubscribeHandle]
  /\ active' = [active EXCEPT ![s] = TRUE]
  /\ unsubscribeSocket' = [unsubscribeSocket EXCEPT ![s] = TRUE]
  /\ listeners' = listeners \cup {s}
  /\ IF OpenSockets = {}
     THEN UNCHANGED <<subscriptionSocket, subscriptionId, requests, sent, closeCallbacks>>
     ELSE LET k == CHOOSE k \in OpenSockets : TRUE IN
          /\ subscriptionSocket' = [subscriptionSocket EXCEPT ![s] = k]
          /\ subscriptionId' = [subscriptionId EXCEPT ![s] = OnSocketCreatedId(subscriptionId[s])]
          /\ requests' = requests \cup {SubscribeRequest(s, k)}
          /\ sent' = [sent EXCEPT ![s] = Append(@, SubscribeMessage(k))]
          /\ closeCallbacks' = [closeCallbacks EXCEPT ![k] = @ \cup {s}]
  /\ UNCHANGED requestVars
  /\ UNCHANGED <<readyState, subscriptions, promises, assigned, pushed, openResponses, onDataCalls, onErrorCalls>>

\* subscribeSocket(...) rejects, lines 170-173: reject(error); onError?.(error)
SubscribeFails(s) ==
  /\ handle[s] = "none"
  /\ handle' = [handle EXCEPT ![s] = "rejected"]
  /\ onErrorCalls' = onErrorCalls \cup {[sub |-> s, sock |-> Undefined, holding |-> {}]}
  /\ UNCHANGED requestVars
  /\ UNCHANGED <<active, subscriptionSocket, subscriptionId, unsubscribeSocket, listeners,
                 readyState, closeCallbacks, requests, subscriptions, sent, promises,
                 assigned, pushed, openResponses, onDataCalls>>

\* The registry keeps one live socket per endpoint: it replaces the socket it
\* created last once that one has left the open state, and by then the close
\* events of the generations before it have been dispatched.
RegistryMayCreate ==
  /\ OpenSockets = {}
  /\ \A j \in Sockets : readyState[j] = "closing" => j = NumSockets

\* The registry (re)creates the endpoint's socket and invokes every registered
\* onSocketCreated, lines 122-163.
CreateSocket ==
  /\ NumSockets < MaxSockets
  /\ RegistryMayCreate
  /\ LET k == NumSockets + 1 IN
     /\ readyState' = [readyState EXCEPT ![k] = "open"]
     /\ subscriptionSocket' = [s \in Subs |-> IF s \in listeners THEN k ELSE subscriptionSocket[s]]
     /\ subscriptionId' = [s \in Subs |-> IF s \in listeners
                                          THEN OnSocketCreatedId(subscriptionId[s])
                                          ELSE subscriptionId[s]]
     /\ requests' = requests \cup {SubscribeRequest(s, k) : s \in listeners}
     /\ sent' = [s \in Subs |-> IF s \in listeners
                                THEN Append(sent[s], SubscribeMessage(k))
                                ELSE sent[s]]
     /\ closeCallbacks' = [closeCallbacks EXCEPT ![k] = listeners]
  /\ UNCHANGED requestVars
  /\ UNCHANGED <<handle, active, unsubscribeSocket, listeners, subscriptions, promises,
                 assigned, pushed, openResponses, onDataCalls, onErrorCalls>>

\* The socket leaves the open state; its close event has not been dispatched yet.
BeginClose(k) ==
  /\ readyState[k] = "open"
  /\ readyState' = [readyState EXCEPT ![k] = "closing"]
  /\ UNCHANGED requestVars
  /\ UNCHANGED <<handle, active, subscriptionSocket, subscriptionId, unsubscribeSocket,
                 listeners, closeCallbacks, requests, subscriptions, sent, promises,
                 assigned, pushed, openResponses, onDataCalls, onErrorCalls>>

\* The close event of socket k: the close callbacks run, lines 157-162, and the
\* dispatcher drops what was pending on the socket.
SocketClosed(k) ==
  /\ readyState[k] = "closing"
  /\ readyState' = [readyState EXCEPT ![k] = "closed"]
  /\ subscriptionSocket' = [s \in Subs |->
        IF s \in closeCallbacks[k] /\ OnCloseClears(subscriptionSocket[s], k)
        THEN Undefined ELSE subscriptionSocket[s]]
  /\ subscriptionId' = [s \in Subs |->
        IF s \in closeCallbacks[k] /\ OnCloseClears(subscriptionSocket[s], k)
        THEN Undefined ELSE subscriptionId[s]]
  /\ closeCallbacks' = [closeCallbacks EXCEPT ![k] = {}]
  /\ requests' = {r \in requests : r.sock # k}
  /\ subscriptions' = [subscriptions EXCEPT ![k] = [x \in Ids |-> 0]]
  /\ UNCHANGED requestVars
  /\ UNCHANGED <<handle, active, unsubscribeSocket, listeners, sent, promises,
                 assigned, pushed, openResponses, onDataCalls, onErrorCalls>>

\* onResponse with response.error, lines 132-136
OpenResponseError(r) ==
  /\ r \in requests
  /\ r.method = "eth_subscribe"
  /\ Live(r.sock)
  /\ requests' = requests \ {r}
  /\ handle' = [u \in Subs |-> IF u \in ErrorCallbacks(r.sub) /\ handle[u] = "pending"
                                THEN "rejected" ELSE handle[u]]
  /\ onErrorCalls' = onErrorCalls \cup
       {[sub |-> u, sock |-> r.sock,
         holding |-> {v \in Subs \ {r.sub} : subscriptionSocket[v] = r.sock /\ subscriptionId[v] # Undefined}] :
          u \in ErrorCallbacks(r.sub)}
  /\ UNCHANGED requestVars
  /\ UNCHANGED <<active, subscriptionSocket, subscriptionId, unsubscribeSocket, listeners,
                 readyState, closeCallbacks, subscriptions, sent, promises, assigned, pushed,
                 openResponses, onDataCalls>>

\* onResponse with a numeric id and a result, lines 138-150.  The server
\* assigns a fresh identifier to each subscription it opens.
OpenResponse(r) ==
  /\ r \in requests
  /\ r.method = "eth_subscribe"
  /\ Live(r.sock)
  /\ assigned + 1 \in Ids
  /\ LET s == r.sub
         x == assigned + 1
     IN
     /\ assigned' = x
     /\ handle' = [handle EXCEPT ![s] = IF @ = "pending" THEN "returned" ELSE @]
     /\ subscriptionId' = [subscriptionId EXCEPT ![s] = x]
     /\ subscriptions' = [subscriptions EXCEPT ![r.sock][x] = s]
     /\ openResponses' = openResponses \cup
          {[sub |-> s, sock |-> r.sock, id |-> x, active |-> active[s],
            bound |-> subscriptionSocket[s], open |-> readyState[r.sock] = "open",
            early |-> EarlyUnsubscribedOn(s, r.sock), sentBefore |-> Len(sent[s])]}
     /\ IF DeferredCleanup(active[s])
        THEN /\ listeners' = CleanupListeners(listeners, s)
             /\ sent' = [sent EXCEPT ![s] = CleanupSent(s, x)]
             /\ requests' = (requests \ {r}) \cup CleanupRequests(s, x)
             /\ promises' = [promises EXCEPT ![s] =
                               Append(@, CleanupPromise(s, x, "deferred"))]
        ELSE /\ requests' = requests \ {r}
             /\ UNCHANGED <<listeners, sent, promises>>
  /\ UNCHANGED requestVars
  /\ UNCHANGED <<active, subscriptionSocket, unsubscribeSocket, readyState, closeCallbacks,
                 pushed, onDataCalls, onErrorCalls>>

\* unsubscribe(), lines 195-198, with cleanup(), lines 177-192
Unsubscribe(s) ==
  /\ handle[s] = "returned"
  /\ Cardinality(UnsubscribeCalls(s)) < MaxUnsubscribe
  /\ active' = [active EXCEPT ![s] = FALSE]
  /\ listeners' = CleanupListeners(listeners, s)
  /\ sent' = [sent EXCEPT ![s] = CleanupSent(s, subscriptionId[s])]
  /\ requests' = requests \cup CleanupRequests(s, subscriptionId[s])
  /\ promises' = [promises EXCEPT ![s] =
                    Append(@, CleanupPromise(s, subscriptionId[s], "unsubscribe"))]
  /\ UNCHANGED requestVars
  /\ UNCHANGED <<handle, subscriptionSocket, subscriptionId, unsubscribeSocket, readyState,
                 closeCallbacks, subscriptions, assigned, pushed, openResponses, onDataCalls, onErrorCalls>>

\* The response to eth_unsubscribe: onResponse is the promise's resolve, line 189
UnsubscribeResponse(r) ==
  /\ r \in requests
  /\ r.method = "eth_unsubscribe"
  /\ Live(r.sock)
  /\ requests' = requests \ {r}
  /\ promises' = [promises EXCEPT ![r.sub][r.promise].state = "resolved"]
  /\ subscriptions' = [subscriptions EXCEPT ![r.sock][r.param] = 0]
  /\ UNCHANGED requestVars
  /\ UNCHANGED <<handle, active, subscriptionSocket, subscriptionId, unsubscribeSocket,
                 listeners, readyState, closeCallbacks, sent, assigned, pushed, openResponses, onDataCalls,
                 onErrorCalls>>

\* A frame without id arrives on socket k carrying identifier x; the dispatcher
\* hands it to the push handler registered for x, whose onResponse runs lines 151-152.
PushFrame(k, m, x) ==
  /\ Live(k)
  /\ pushed < MaxPush
  /\ pushed' = pushed + 1
  /\ LET s == PushHandler(k, x) IN
     IF s # 0 /\ OnResponseForwards(m)
     THEN onDataCalls' = onDataCalls \cup
            {[sub |-> s, sock |-> k, method |-> m, id |-> x,
              recorded |-> subscriptionId[s], bound |-> subscriptionSocket[s],
              active |-> active[s], early |-> EarlyUnsubscribed(s),
              torn |-> TornDown(s), errored |-> Errored(s)]}
     ELSE UNCHANGED onDataCalls
  /\ UNCHANGED requestVars
  /\ UNCHANGED <<handle, active, subscriptionSocket, subscriptionId, unsubscribeSocket,
                 listeners, readyState, closeCallbacks, requests, subscriptions, sent,
                 promises, assigned, openResponses, onErrorCalls>>

Next ==
  \/ \E s \in Primary : Subscribe(s)
  \/ \E s \in Primary : SubscribeFails(s)
  \/ CreateSocket
  \/ \E k \in Sockets : BeginClose(k)
  \/ \E k \in Sockets : SocketClosed(k)
  \/ \E r \in requests : OpenResponseError(r)
  \/ \E r \in requests : OpenResponse(r)
  \/ \E s \in Subs : Unsubscribe(s)
  \/ \E r \in requests : UnsubscribeResponse(r)
  \/ \E k \in Sockets, m \in PushMethods, x \in Ids : PushFrame(k, m, x)

Spec == Init /\ [][Next]_vars

----------------------------------------------------------------------------
\* The transport factory and request(), lines 78-102.

\* Two subscriptions sharing the endpoint's first socket.
CreateFirstSocket ==
  /\ NumSockets = 0
  /\ CreateSocket

NextShared ==
  \/ \E s \in Subs : Subscribe(s)
  \/ CreateFirstSocket
  \/ \E r \in requests : OpenResponseError(r)
  \/ \E r \in requests : OpenResponse(r)
  \/ \E s \in Subs : Unsubscribe(s)
  \/ \E r \in requests : UnsubscribeResponse(r)
  \/ \E k \in Sockets, m \in PushMethods, x \in Ids : PushFrame(k, m, x)

SpecShared == Init /\ [][NextShared]_vars

\* a ?? b
Nullish(a, b) == IF a = NotGiven THEN b ELSE a

\* a || b on URLs: undefined and the empty string are falsy
OrElse(a, b) == IF a \in {Absent, ""} THEN b ELSE a

\* (variant: the configured timeout wins over the client's)
ResolveTimeoutConfigFirst(clientTimeout, configTimeout) ==
  Nullish(Nullish(configTimeout, clientTimeout), DefaultTimeout)

\* line 81: timeout_ ?? config.timeout ?? 10_000
ResolveTimeout(clientTimeout, configTimeout) ==
  Nullish(Nullish(clientTimeout, configTimeout), DefaultTimeout)

\* line 80: config.retryCount ?? retryCount_
ResolveRetryCount(clientRetryCount, configRetryCount) ==
  Nullish(configRetryCount, clientRetryCount)

\* line 82: url || chain?.rpcUrls.default.webSocket?.[0]
ResolveUrl(url, chainUrl) == OrElse(url, chainUrl)

\* line 83: if (!url_) throw new UrlRequiredError()
UrlRequired(url_) == url_ \in {Absent, ""}

\* (variant: the error member of the response is ignored)
RequestOutcomeIgnoringError(body, response, url_) ==
  [state |-> "resolved", value |-> response.result, name |-> "none",
   body |-> body, error |-> NoError, url |-> url_]

\* lines 95-101: if (error) throw new RpcRequestError({body, error, url}); return result
RequestOutcome(body, response, url_) ==
  IF response.error # NoError
  THEN [state |-> "rejected", value |-> "undefined", name |-> "RpcRequestError",
        body |-> body, error |-> response.error, url |-> url_]
  ELSE [state |-> "resolved", value |-> response.result, name |-> "none",
        body |-> body, error |-> NoError, url |-> url_]

\* webSocket(url, config) is given a client's chain, retryCount and timeout, lines 77-83
CreateTransport(url, chainUrl, configTimeout, clientTimeout, configRetry, clientRetry) ==
  /\ transport.state = "none"
  /\ transport' =
       [state |-> IF UrlRequired(ResolveUrl(url, chainUrl)) THEN "UrlRequiredError" ELSE "created",
        url |-> url, chainUrl |-> chainUrl,
        timeout |-> configTimeout, clientTimeout |-> clientTimeout,
        retryCount |-> configRetry, clientRetryCount |-> clientRetry,
        url_ |-> ResolveUrl(url, chainUrl),
        timeout_ |-> ResolveTimeout(clientTimeout, configTimeout),
        retryCount_ |-> ResolveRetryCount(clientRetry, configRetry),
        sockets |-> 0]
  /\ UNCHANGED calls
  /\ UNCHANGED subscriptionVars

\* request({method, params}), lines 88-94: the socket is acquired and the body
\* is sent once, with the transport's timeout
Request(method, params) ==
  /\ transport.state = "created"
  /\ Len(calls) < MaxRequests
  /\ transport' = [transport EXCEPT !.sockets = @ + 1]
  /\ calls' = Append(calls,
       [body |-> [method |-> method, params |-> params], sends |-> 1,
        timeout |-> transport.timeout_, arrived |-> FALSE,
        response |-> [error |-> NoError, result |-> "undefined"],
        outcome |-> [state |-> "pending", value |-> "undefined", name |-> "none",
                     body |-> [method |-> method, params |-> params],
                     error |-> NoError, url |-> transport.url_]])
  /\ UNCHANGED subscriptionVars

\* the matching response arrives, lines 91-101
RequestResponse(i, response) ==
  /\ i \in 1..Len(calls)
  /\ calls[i].outcome.state = "pending"
  /\ calls' = [calls EXCEPT ![i].arrived = TRUE, ![i].response = response,
                            ![i].outcome = RequestOutcome(calls[i].body, response, transport.url_)]
  /\ UNCHANGED transport
  /\ UNCHANGED subscriptionVars

\* no response within the timeout: rpc.webSocketAsync fails with a TimeoutError
RequestTimeout(i) ==
  /\ i \in 1..Len(calls)
  /\ calls[i].outcome.state = "pending"
  /\ calls' = [calls EXCEPT ![i].outcome.state = "rejected",
                            ![i].outcome.name = "TimeoutError"]
  /\ UNCHANGED transport
  /\ UNCHANGED subscriptionVars

NextRequest ==
  \/ \E url \in UrlArguments, chainUrl \in ChainUrls,
        configTimeout \in Timeouts, clientTimeout \in Timeouts,
        configRetry \in RetryCounts, clientRetry \in RetryCounts :
       CreateTransport(url, chainUrl, configTimeout, clientTimeout, configRetry, clientRetry)
  \/ \E method \in RequestMethods, params \in RequestParams : Request(method, params)
  \/ \E i \in 1..MaxRequests, response \in Responses : RequestResponse(i, response)
  \/ \E i \in 1..MaxRequests : RequestTimeout(i)

SpecRequest == Init /\ [][NextRequest]_vars

----------------------------------------------------------------------------
TypeOK ==
  /\ handle \in [Subs -> {"none", "pending", "returned", "rejected"}]
  /\ active \in [Subs -> BOOLEAN]
  /\ subscriptionSocket \in [Subs -> Sockets \cup {Undefined}]
  /\ subscriptionId \in [Subs -> Ids \cup {Undefined}]
  /\ unsubscribeSocket \in [Subs -> BOOLEAN]
  /\ listeners \subseteq Subs
  /\ readyState \in [Sockets -> {"none", "open", "closing", "closed"}]
  /\ Cardinality(OpenSockets) <= 1
  /\ \A r \in requests : r.timeout \in Timeouts \cup {DefaultTimeout}
  /\ transport.state \in {"none", "created", "UrlRequiredError"}
  /\ transport.timeout_ \in Timeouts \cup {DefaultTimeout}
  /\ transport.retryCount_ \in RetryCounts
  /\ transport.url_ \in UrlArguments \cup ChainUrls
  /\ Len(calls) <= MaxRequests
  /\ \A i \in 1..Len(calls) :
       /\ calls[i].outcome.state \in {"pending", "resolved", "rejected"}
       /\ calls[i].response \in Responses \cup {[error |-> NoError, result |-> "undefined"]}

----------------------------------------------------------------------------
\* Claims.

\* C1: for one subscription the number of eth_unsubscribe messages sent never
\* exceeds 1, and no identifier is the parameter of more than one of them.
C1_AtMostOneTeardown ==
  \A s \in Subs :
    /\ Cardinality(Teardowns(s)) <= 1
    /\ \A i, j \in Teardowns(s) : sent[s][i].param = sent[s][j].param => i = j

\* C2: when unsubscribe() was invoked with no identifier recorded and the
\* open-call in flight on the bound socket, and the open-call response then
\* arrives with identifier X on that socket while it is open, an eth_unsubscribe
\* whose parameter is X is sent on that socket after the response.
C2_DeferredTeardownCarriesIdentifier ==
  \A o \in openResponses :
    (o.early /\ o.sock = o.bound /\ o.open) =>
      \E m \in Teardowns(o.sub) :
        /\ m > o.sentBefore
        /\ sent[o.sub][m] = [sock |-> o.sock, method |-> "eth_unsubscribe", param |-> o.id]

C2_Witness ==
  \E o \in openResponses :
    /\ o.early /\ o.sock = o.bound /\ o.open
    /\ \E m \in Teardowns(o.sub) : sent[o.sub][m].param = o.id

\* C3: once unsubscribe() was invoked with no identifier recorded, onData is
\* never invoked for that subscription by a frame that arrives on its bound
\* socket (the late open-call response and the push frames that follow it).
C3_NoDataAfterEarlyUnsubscribe ==
  \A d \in onDataCalls : ~(d.early /\ d.sock = d.bound)

\* C4: a second unsubscribe() on the same handle sends no message and its
\* promise resolves.
C4_UnsubscribeIdempotent ==
  \A s \in Subs : \A i \in UnsubscribeCalls(s) :
    (\E j \in UnsubscribeCalls(s) : j < i) =>
      /\ promises[s][i].msg = 0
      /\ promises[s][i].state = "resolved"

\* C5: when a socket is created for an active subscription whose handle has
\* been returned, the subscription is bound to the new socket, its recorded
\* identifier is reset in the same step, and exactly one eth_subscribe is sent,
\* on the new socket.
C5_RebindOnSocketCreation ==
  [][\A s \in Subs :
       (active[s] /\ handle[s] = "returned" /\ NumSockets' = NumSockets + 1) =>
         /\ subscriptionSocket'[s] = NumSockets'
         /\ subscriptionId'[s] = Undefined
         /\ sent'[s] = Append(sent[s], SubscribeMessage(NumSockets'))]_vars

C5_Witness ==
  \E s \in Subs :
    /\ active[s] /\ handle[s] = "returned"
    /\ \E o \in openResponses : o.sub = s /\ o.sock = 1 /\ o.bound = 1
    /\ subscriptionSocket[s] = 2
    /\ subscriptionId[s] = Undefined
    /\ sent[s] = <<SubscribeMessage(1), SubscribeMessage(2)>>

\* C6: onData is invoked only for a frame whose method is eth_subscription and
\* whose identifier equals the identifier recorded for the subscription.
C6_ForwardOnlyRecordedIdentifier ==
  \A d \in onDataCalls : d.method = "eth_subscription" /\ d.id = d.recorded

\* C7: the promise of an unsubscribe() that needs no teardown message resolves
\* at once.
C7_UnsubscribePromiseResolves ==
  \A s \in Subs : \A i \in UnsubscribeCalls(s) :
    promises[s][i].msg = 0 => promises[s][i].state = "resolved"

\* C8: every eth_unsubscribe was sent by a cleanup that found an identifier
\* recorded and the bound socket open, on that socket and with that identifier;
\* an unsubscribe() with no identifier recorded or the bound socket not open
\* sends nothing.
C8_TeardownOnlyWhenOpen ==
  \A s \in Subs :
    /\ \A m \in Teardowns(s) : \E i \in 1..Len(promises[s]) :
         /\ promises[s][i].msg = m
         /\ promises[s][i].id # Undefined
         /\ promises[s][i].sock # Undefined
         /\ promises[s][i].open
         /\ sent[s][m] = [sock |-> promises[s][i].sock, method |-> "eth_unsubscribe",
                          param |-> promises[s][i].id]
    /\ \A i \in UnsubscribeCalls(s) :
         (promises[s][i].id = Undefined \/ ~promises[s][i].open) => promises[s][i].msg = 0

C8_Witness ==
  \E s \in Subs :
    /\ Teardowns(s) # {}
    /\ \E i \in UnsubscribeCalls(s) :
         /\ promises[s][i].id # Undefined
         /\ promises[s][i].sock # Undefined
         /\ ~promises[s][i].open
         /\ promises[s][i].msg = 0

\* C9: once unsubscribe() has been called, no eth_subscribe is sent for the
\* subscription again.
C9_NoOpenCallAfterUnsubscribe ==
  [][\A s \in Subs :
       UnsubscribeCalls(s) # {} =>
         \A i \in 1..Len(sent'[s]) :
           i > Len(sent[s]) => sent'[s][i].method # "eth_subscribe"]_vars

C9_Witness ==
  \E s \in Subs : \E i \in UnsubscribeCalls(s) :
    /\ promises[s][i].sock = 1
    /\ readyState[2] # "none"
    /\ \A m \in OpenCalls(s) : sent[s][m].sock = 1

\* C10: once an open-call response carrying an error has been delivered, no
\* eth_subscribe is sent for the subscription again and onData is not invoked
\* for it again.
C10_TerminalAfterOpenError ==
  [][\A s \in Subs :
       Errored(s) =>
         /\ \A i \in 1..Len(sent'[s]) :
              i > Len(sent[s]) => sent'[s][i].method # "eth_subscribe"
         /\ \A d \in onDataCalls' : d.sub = s => d \in onDataCalls]_vars

\* C11: a subscribe() that fails (the registration fails, or the first
\* open-call response carries an error) still hands a handle to the caller.
C11_FailedSubscribeReturnsHandle ==
  \A s \in Subs : handle[s] # "rejected"

\* C15: a recorded identifier comes with a bound socket, and it was returned by
\* the open-call sent on that bound socket.
C15_IdentifierOfBoundSocket ==
  \A s \in Subs :
    subscriptionId[s] # Undefined =>
      /\ subscriptionSocket[s] # Undefined
      /\ \E o \in openResponses :
           o.sub = s /\ o.id = subscriptionId[s] /\ o.sock = subscriptionSocket[s]

\* C16: the handle is returned only by the step that handles the first
\* successful open-call response, which leaves an identifier recorded, and
\* unsubscribe() is invoked only on a returned handle.
C16_HandleAfterFirstResponse ==
  [][\A s \in Subs :
       /\ (handle[s] # "returned" /\ handle'[s] = "returned") =>
            /\ handle[s] = "pending"
            /\ \E o \in openResponses' \ openResponses : o.sub = s
            /\ \A o \in openResponses : o.sub # s
            /\ subscriptionId'[s] # Undefined
       /\ Len(promises'[s]) > Len(promises[s]) => handle[s] = "returned"]_vars

C16_Witness ==
  \E s \in Subs :
    /\ handle[s] = "returned"
    /\ UnsubscribeCalls(s) # {}
    /\ \E o \in openResponses : o.sub = s

\* C17: the close event of a socket clears the bound socket and the recorded
\* identifier of a subscription exactly when that socket is the bound one; the
\* close of a socket already replaced leaves both unchanged.
C17_CloseClearsOnlyBoundSocket ==
  [][\A k \in Sockets : \A s \in Subs :
       (readyState[k] = "closing" /\ readyState'[k] = "closed") =>
         IF s \in closeCallbacks[k] /\ subscriptionSocket[s] = k
         THEN subscriptionSocket'[s] = Undefined /\ subscriptionId'[s] = Undefined
         ELSE /\ subscriptionSocket'[s] = subscriptionSocket[s]
              /\ subscriptionId'[s] = subscriptionId[s]]_vars

C17_Witness ==
  \E s \in Subs :
    /\ readyState[1] = "closed"
    /\ \E o \in openResponses : o.sub = s /\ o.sock = 1 /\ o.bound = 2
    /\ subscriptionSocket[s] = 2
    /\ subscriptionId[s] # Undefined

\* C18: once unsubscribe() has been called with an identifier recorded and the
\* bound socket open, onData is not invoked for the subscription again.
C18_NoDataAfterTeardown ==
  \A d \in onDataCalls : ~d.torn

\* C12: the transport's per-call timeout applies to the eth_subscribe open-call:
\* every open-call a pending subscribe() is waiting on carries a timeout, so
\* that a response that never arrives ends the wait with a timeout error.
C12_OpenCallCarriesTimeout ==
  \A r \in requests :
    (r.method = "eth_subscribe" /\ handle[r.sub] = "pending") => r.timeout # NotGiven


\* C13: when an error response to the open-call of one subscription is
\* delivered, every other subscription sharing the socket keeps its active
\* flag, bound socket, recorded identifier and registration, its subscribe()
\* outcome is untouched and its onError is not invoked.
C13_OpenErrorLeavesOthersUnchanged ==
  [][\A r \in requests :
       (r.method = "eth_subscribe" /\ r \notin requests' /\ openResponses' = openResponses) =>
         \A u \in Subs \ {r.sub} :
           /\ active'[u] = active[u]
           /\ subscriptionSocket'[u] = subscriptionSocket[u]
           /\ subscriptionId'[u] = subscriptionId[u]
           /\ (u \in listeners') = (u \in listeners)
           /\ unsubscribeSocket'[u] = unsubscribeSocket[u]
           /\ handle'[u] = handle[u]
           /\ \A e \in onErrorCalls' \ onErrorCalls : e.sub # u]_vars

\* an open-call error was delivered on the socket on which another, still
\* active and registered subscription was holding its identifier
C13_Witness ==
  \E s \in Subs, u \in Subs :
    /\ s # u
    /\ \E e \in onErrorCalls : e.sub = s /\ e.sock = subscriptionSocket[u] /\ u \in e.holding
    /\ handle[s] = "rejected"
    /\ handle[u] = "returned"
    /\ active[u] /\ u \in listeners
    /\ subscriptionId[u] # Undefined
    /\ \A e \in onErrorCalls : e.sub # u

\* C14: request() sends its body once; it is rejected with an RpcRequestError
\* carrying the body {method, params}, the transport's URL and the server's
\* error payload exactly when the response has an error member, and it
\* resolves with the response's result otherwise.
C14_RequestErrorExactlyOnErrorResponse ==
  \A i \in 1..Len(calls) :
    LET c == calls[i] IN
    /\ c.sends = 1
    /\ (c.outcome.state = "rejected" /\ c.outcome.name = "RpcRequestError")
         <=> (c.arrived /\ c.response.error # NoError)
    /\ c.outcome.name = "RpcRequestError" =>
         /\ c.outcome.body = c.body
         /\ c.outcome.url = transport.url_
         /\ c.outcome.error = c.response.error
    /\ (c.arrived /\ c.response.error = NoError) =>
         /\ c.outcome.state = "resolved"
         /\ c.outcome.value = c.response.result

\* a request on a transport that fell back to the chain's URL was answered
\* with an error and rejected
C14_Witness ==
  \E i \in 1..Len(calls) :
    /\ calls[i].arrived
    /\ calls[i].response.error = "reverted"
    /\ calls[i].outcome.name = "RpcRequestError"
    /\ transport.url_ = "wss://chain"

\* C19: the timeout in effect is the client's when given, else the config's,
\* else 10000; the retry count is the config's when given, else the client's;
\* with no URL argument and no chain default the factory fails with
\* UrlRequiredError and no socket is ever acquired.
C19_ConfigResolution ==
  transport.state # "none" =>
    /\ transport.timeout_ =
         IF transport.clientTimeout # NotGiven THEN transport.clientTimeout
         ELSE IF transport.timeout # NotGiven THEN transport.timeout
         ELSE 10000
    /\ transport.retryCount_ =
         IF transport.retryCount # NotGiven THEN transport.retryCount
         ELSE transport.clientRetryCount
    /\ \A i \in 1..Len(calls) : calls[i].timeout = transport.timeout_
    /\ (transport.url = Absent /\ transport.chainUrl = Absent) =>
         /\ transport.state = "UrlRequiredError"
         /\ transport.sockets = 0
         /\ calls = <<>>

\* a request made with the client's timeout of 0 in effect although the
\* config names another, and the config's retry count of 0 although the
\* client names another
C19_Witness ==
  /\ transport.state = "created"
  /\ transport.clientTimeout = 0 /\ transport.timeout = 5000
  /\ transport.retryCount = 0 /\ transport.clientRetryCount = 3
  /\ Len(calls) > 0
  /\ calls[1].timeout = 0

====
